---------------------------- MODULE Spec2Model ----------------------------
(***************************************************************************)
(* A model of StrategyBase (src/src/phx/strategy/base/base.py): the        *)
(* execution state machine, the starting and stopping barriers, the        *)
(* inbound handlers and the dispatch loop.                                 *)
(*                                                                         *)
(* The strategy object is driven from outside in two ways, as in the       *)
(* source: a caller invokes dispatch(), which pops one message (or a       *)
(* queue-empty timeout) per iteration, routes it and then calls            *)
(* exec_state_evaluation(); and, while dispatch() is not running, the      *)
(* caller may invoke a handler or exec_state_evaluation() directly.        *)
(* Everything runs on one thread, so each handler call and each top-level  *)
(* evaluation is one atomic step.                                          *)
(*                                                                         *)
(* The program's fields are the variables of the same name.  Handlers and  *)
(* the evaluation are operators from a record of those fields to a record; *)
(* the field "raise" of that record is the exception in flight ("none"     *)
(* when the call returned normally) and "calls" is the list of the calls   *)
(* made to the collaborators during the step.                              *)
(*                                                                         *)
(* The collaborators (transport, tracker, timers, trade()) are taken not   *)
(* to raise; the exceptions of the model are the ones the code of          *)
(* StrategyBase itself raises.                                             *)
(***************************************************************************)
EXTENDS Integers, Sequences, FiniteSets, TLC

\* ------------------------------------------------------------------ bounds
NTickers == 2
timeout == 1
MaxOrders == 1
MaxReports == 2
NContents == 1
MaxQuantity == 2
MaxUpdates == 2
random_timeout == 2
trade_interval == 1
MaxSleep == 2

start_time == 0

\* The clock is followed up to the end of the run.
MaxNow == start_time + timeout

Tickers == 1..NTickers
Orders == 1..MaxOrders
Contents == 1..NContents
Quantities == 0..MaxQuantity

\* ----------------------------------------------------------- program names
ORDERBOOK_SNAPSHOTS == "orderbook_snapshots"
POSITION_SNAPSHOTS == "position_snapshots"
WORKING_ORDERS == "working_orders"
SECURITY_REPORTS == "security_reports"
CANCEL_OPEN_ORDERS == "cancel_open_orders"

\* The members of the enumeration StrategyExecState.
StrategyExecState ==
    {"STOPPED", "LOGING_IN", "LOGGED_IN", "STARTING", "STARTED", "STOPPING",
     "LOGGED_OUT", "FINISHED"}

\* fix.MassCancelResponse_CANCEL_REQUEST_REJECTED and an accepting response.
MassCancelResponses == {"REJECTED", "ACCEPTED"}

VARIABLES
    mkt_symbols, trading_symbols, cancel_orders_on_exit, use_mass_cancel_request,
    current_exec_state, logged_in, completed, timed_out, exception,
    starting_reference, starting_barriers, stopping_reference, stopping_barriers,
    order_books, mass_status_exec_reports, open_orders,
    now, pc, last, dispatched,
    random

config == <<mkt_symbols, trading_symbols, cancel_orders_on_exit, use_mass_cancel_request>>
fields == <<current_exec_state, logged_in, completed, timed_out, exception,
            starting_reference, starting_barriers, stopping_reference, stopping_barriers,
            order_books, mass_status_exec_reports, open_orders>>
vars == <<config, fields, now, pc, last, dispatched, random>>

\* ------------------------------------------------------------ dictionaries
EmptyDict == [k \in {} |-> 0]
Has(d, k) == k \in DOMAIN d
DictPop(d, k) == [x \in (DOMAIN d) \ {k} |-> d[x]]
DictSet(d, k, v) == [x \in (DOMAIN d) \cup {k} |-> IF x = k THEN v ELSE d[x]]
Len0(d) == Cardinality(DOMAIN d)

\* The strategy object as a record, with the exception in flight, the calls
\* made so far in this step and the values assigned to current_exec_state so
\* far in this step.
Self ==
    [current_exec_state |-> current_exec_state, logged_in |-> logged_in,
     completed |-> completed, timed_out |-> timed_out, exception |-> exception,
     starting_reference |-> starting_reference, starting_barriers |-> starting_barriers,
     stopping_reference |-> stopping_reference, stopping_barriers |-> stopping_barriers,
     order_books |-> order_books, mass_status_exec_reports |-> mass_status_exec_reports,
     open_orders |-> open_orders,
     raise |-> "none", calls |-> << >>, states |-> << >>]

Call(s, fn, tickers, ready) ==
    [s EXCEPT !.calls = Append(@, [fn |-> fn, tickers |-> tickers, ready |-> ready])]

Raise(s, e) == [s EXCEPT !.raise = e]

\* self.current_exec_state = st
SetState(s, st) == [s EXCEPT !.current_exec_state = st, !.states = Append(@, st)]


\* ------------------------------------------------------------- life cycle
get_starting_barriers ==
    [k \in {ORDERBOOK_SNAPSHOTS, POSITION_SNAPSHOTS, WORKING_ORDERS, SECURITY_REPORTS} |->
        IF k = ORDERBOOK_SNAPSHOTS THEN mkt_symbols
        ELSE IF k = WORKING_ORDERS THEN trading_symbols
        ELSE 1]

get_stopping_barriers ==
    [k \in {CANCEL_OPEN_ORDERS} |-> trading_symbols]

\* A restart test that forgets the time-out and the completion.
check_should_start_always(s) == TRUE

check_should_start(s) == ~s.timed_out /\ ~s.completed

\* starting(): both mappings are fresh copies of the requirement set, the
\* requests go out, the state becomes STARTING.
starting(s) ==
    LET s1 == [s EXCEPT !.starting_barriers = get_starting_barriers,
                        !.starting_reference = get_starting_barriers]
        s2 == Call(s1, "starting", {}, TRUE)
        s3 == Call(s2, "security_list_request", {}, TRUE)
        s4 == Call(s3, "market_data_request", mkt_symbols, TRUE)
        s5 == Call(s4, "order_mass_status_request", trading_symbols, TRUE)
        s6 == Call(s5, "request_for_positions", trading_symbols, TRUE)
    IN  SetState(s6, "STARTING")

\* A start that does not wait for the starting barriers.
check_started_skipped(s) == TRUE

check_started(s) == Len0(s.starting_barriers) = 0

\* The recurring timer is constructed by __init__ and start_timers() is the
\* only place that starts it; nothing in the program calls start_timers().
recurring_timer_is_alive == FALSE

\* stop_timers(): the timer is cancelled and joined when it is alive.
stop_timers(s) ==
    LET s1 == Call(s, "stop_timers", {}, TRUE)
    IN  IF recurring_timer_is_alive
        THEN Call(Call(s1, "recurring_timer.cancel", {}, TRUE),
                  "recurring_timer.join", {}, TRUE)
        ELSE s1

\* A wind-down that saves the history before it stops the timers.
stopping_saves_first(s) ==
    LET s1 == Call(Call(s, "stopping", {}, TRUE), "save_fix_message_history", {}, TRUE)
    IN  SetState(stop_timers(s1), "STOPPING")

\* A wind-down that declares the run finished without passing STOPPING.
stopping_finished(s) ==
    SetState(Call(stop_timers(Call(s, "stopping", {}, TRUE)),
                  "save_fix_message_history", {}, TRUE),
             "FINISHED")

\* A wind-down that asks for the cancellation without a session.
stopping_without_session(s) ==
    LET s1 == stop_timers(Call(s, "stopping", {}, TRUE))
        s2 == Call(s1, "save_fix_message_history", {}, TRUE)
        s3 == IF cancel_orders_on_exit
              THEN Call([s2 EXCEPT !.stopping_barriers = get_stopping_barriers],
                        "order_mass_cancel_request", trading_symbols, TRUE)
              ELSE s2
    IN  SetState(s3, "STOPPING")

\* stopping(): timers are stopped, the history is saved, the cancel
\* requirement is installed when cancel_orders_on_exit and logged_in, the
\* state becomes STOPPING.  stopping_reference is not assigned here.
stopping(s) ==
    LET s1 == stop_timers(Call(s, "stopping", {}, TRUE))
        s2 == Call(s1, "save_fix_message_history", {}, TRUE)
        s3 == IF cancel_orders_on_exit /\ s2.logged_in
              THEN LET b == [s2 EXCEPT !.stopping_barriers = get_stopping_barriers]
                   IN  IF use_mass_cancel_request
                       THEN IF trading_symbols = {} THEN b
                            ELSE Call(b, "order_mass_cancel_request", trading_symbols, TRUE)
                       ELSE IF s2.open_orders = {} THEN b
                            ELSE Call(b, "order_cancel_request", {}, TRUE)
              ELSE s2
    IN  SetState(s3, "STOPPING")

\* A stop that does not wait for the cancel acknowledgements.
check_stopping_skipped(s) == TRUE

check_stopping(s) == Len0(s.stopping_barriers) = 0

\* A completion test that is late by one instant.
check_completed_late(s) ==
    [s EXCEPT !.timed_out = (now > start_time + timeout),
              !.completed = (now > start_time + timeout)]

\* check_completed(): timed_out and completed are both set from the clock.
check_completed(s) ==
    [s EXCEPT !.timed_out = (now >= start_time + timeout),
              !.completed = (now >= start_time + timeout)]

\* trade() is the pluggable step.  The calls trade and app_runner.stop are
\* logged with what they found: trade, whether the state was STARTED and the
\* starting barriers empty; app_runner.stop, whether the state was STOPPING
\* and no CANCEL_OPEN_ORDERS entry outstanding.
trade(s) ==
    Call(s, "trade", {},
         s.current_exec_state = "STARTED" /\ Len0(s.starting_barriers) = 0)

RECURSIVE exec_state_evaluation(_)

\* An evaluation that leaves the next branch to the next call.
reevaluate_later(s) == s

\* self.exec_state_evaluation() inside the LOGING_IN and STARTING branches.
reevaluate(s) == exec_state_evaluation(s)

\* The if/elif chain of exec_state_evaluation.  The names STARTED .. STOPPING
\* are members of the enumeration; EXCEPTION is looked up only when none of
\* the six branches before it matched, and the lookup of a name that is not
\* a member raises AttributeError.
EvaluationBody(s) ==
    LET st == s.current_exec_state IN
    IF st = "STARTED" THEN
        LET s1 == check_completed(trade(s))
        IN  IF s1.completed THEN stopping(s1) ELSE s1
    ELSE IF st = "STOPPED" THEN
        IF check_should_start(s)
        THEN SetState(Call(s, "app_runner.start", {}, TRUE), "LOGING_IN")
        ELSE s
    ELSE IF st = "LOGING_IN" THEN
        IF s.logged_in
        THEN reevaluate(SetState(s, "LOGGED_IN"))
        ELSE s
    ELSE IF st = "LOGGED_IN" THEN
        starting(s)
    ELSE IF st = "STARTING" THEN
        IF check_started(s)
        THEN reevaluate(SetState(s, "STARTED"))
        ELSE s
    ELSE IF st = "STOPPING" THEN
        IF check_stopping(s)
        THEN LET s1 == Call(s, "app_runner.stop", {},
                            s.current_exec_state = "STOPPING"
                                /\ ~Has(s.stopping_barriers, CANCEL_OPEN_ORDERS))
             IN  IF check_should_start(s1)
                 THEN SetState(s1, "STOPPED")
                 ELSE SetState(s1, "FINISHED")
        ELSE s
    ELSE IF "EXCEPTION" \notin StrategyExecState THEN
        Raise(s, "AttributeError")
    ELSE s

\* The except clause of exec_state_evaluation: the exception is recorded,
\* then StrategyExecState.EXCEPTION is looked up for the assignment; a
\* failing lookup raises inside the except clause and leaves the method.
EvaluationExcept(s) ==
    LET s1 == [s EXCEPT !.exception = s.raise, !.raise = "none"]
    IN  IF "EXCEPTION" \notin StrategyExecState
        THEN Raise(s1, "AttributeError")
        ELSE exec_state_evaluation(SetState(s1, "EXCEPTION"))

exec_state_evaluation(s) ==
    LET r == EvaluationBody(s)
    IN  IF r.raise = "none" THEN r ELSE EvaluationExcept(r)


\* ---------------------------------------------------------------- messages
\* The typed events of the queue.  A ticker stands for an (exchange, symbol)
\* pair.  An ExecReport carries exec_type ("I" order status, "8" rejected,
\* "0" any other), ord_status ("8" rejected, "0" new, "4" cancelled), the
\* mass-status fields and the order it reports on.
PlainTypes == {"Logon", "Logout", "GatewayNotReady", "SecurityReport", "PositionReports", "Heartbeat"}

PlainMessages == [type : PlainTypes]

SnapshotMessages == [type : {"OrderBookSnapshot"}, ticker : Tickers, content : Contents]

MassCancelMessages ==
    [type : {"OrderMassCancelReport"}, ticker : Tickers, response : MassCancelResponses]

AllExecReports ==
    [type : {"ExecReport"}, exec_type : {"I", "8", "0"}, ord_status : {"8", "0", "4"},
     is_mass_status : BOOLEAN, tot_num_reports : 1..MaxReports,
     last_rpt_requested : BOOLEAN, ticker : Tickers, ord_id : Orders]

\* One report for each combination of the fields on_exec_report reads: the
\* fields a branch does not read are held at one value.
ExecReportMessages ==
    {m \in AllExecReports :
        \/ /\ m.exec_type = "I" /\ m.ord_status = "0" /\ m.is_mass_status /\ m.ord_id = 1
        \/ /\ m.exec_type = "I" /\ m.ord_status \in {"8", "0"} /\ ~m.is_mass_status
           /\ m.tot_num_reports = 1 /\ ~m.last_rpt_requested /\ m.ord_id = 1
        \/ /\ m.exec_type = "8" /\ m.ord_status \in {"8", "0"} /\ ~m.is_mass_status
           /\ m.tot_num_reports = 1 /\ ~m.last_rpt_requested /\ m.ord_id = 1 /\ m.ticker = 1
        \/ /\ m.exec_type = "0" /\ ~m.is_mass_status
           /\ m.tot_num_reports = 1 /\ ~m.last_rpt_requested /\ m.ticker = 1}

Messages == PlainMessages \cup SnapshotMessages \cup MassCancelMessages \cup ExecReportMessages

\* An OrderBookUpdate carries a list of level updates.  A book stands for
\* the quantity at its one price level, and an update for the new quantity.
UpdateLists == UNION {[1..n -> Quantities] : n \in 0..MaxUpdates}

UpdateMessages == [type : {"OrderBookUpdate"}, ticker : Tickers, updates : UpdateLists]

IsMassStatusReport(m) ==
    m.type = "ExecReport" /\ m.exec_type = "I" /\ m.ord_status = "0" /\ m.is_mass_status

IsTrackerReport(m) ==
    m.type = "ExecReport" /\ m.exec_type = "0" /\ m.ord_status # "8"

\* The messages of the life-cycle specification.  Of the mass-status reports
\* it has the ones that are a whole batch (one report, declared total 1, last
\* report), so that the buffer is empty between two messages; it has no
\* report for the order tracker, so that the tracker has no open orders.
LifeCycleMessages ==
    {m \in Messages :
        /\ IsMassStatusReport(m) => (m.tot_num_reports = 1 /\ m.last_rpt_requested)
        /\ ~IsTrackerReport(m)}

\* ---------------------------------------------------------------- handlers
on_logon(s, msg) == [s EXCEPT !.logged_in = TRUE]

on_logout(s, msg) == [s EXCEPT !.logged_in = FALSE]

on_heartbeat(s, msg) == s

on_gateway_not_ready(s, msg) ==
    [s EXCEPT !.completed = TRUE, !.exception = "GatewayNotReady"]

on_security_report(s, msg) ==
    [s EXCEPT !.starting_barriers = DictPop(@, SECURITY_REPORTS)]

\* A position handler that takes every batch for the initial snapshot.
on_position_reports_always(s, msg) ==
    Call([s EXCEPT !.starting_barriers = DictPop(@, POSITION_SNAPSHOTS)],
         "position_tracker.set_snapshots", {}, TRUE)

\* pop(POSITION_SNAPSHOTS, 0) removes the key; the count 1 it returns is
\* true and selects the initial-snapshot branch.
on_position_reports(s, msg) ==
    IF Has(s.starting_barriers, POSITION_SNAPSHOTS)
    THEN Call([s EXCEPT !.starting_barriers = DictPop(@, POSITION_SNAPSHOTS)],
              "position_tracker.set_snapshots", {}, TRUE)
    ELSE s

\* A snapshot handler for a starting() that stores one and the same mapping
\* as barriers and as reference: the removal shows in the reference too.
on_order_book_snapshot_shared(s, msg) ==
    LET s1 ==
            IF Has(s.starting_barriers, ORDERBOOK_SNAPSHOTS)
            THEN LET remaining == s.starting_barriers[ORDERBOOK_SNAPSHOTS]
                 IN  IF msg.ticker \notin remaining
                     THEN Raise(s, "KeyError")
                     ELSE IF remaining \ {msg.ticker} = {}
                          THEN [s EXCEPT !.starting_barriers = DictPop(@, ORDERBOOK_SNAPSHOTS),
                                         !.starting_reference = DictPop(@, ORDERBOOK_SNAPSHOTS)]
                          ELSE [s EXCEPT !.starting_barriers[ORDERBOOK_SNAPSHOTS] =
                                               remaining \ {msg.ticker},
                                         !.starting_reference[ORDERBOOK_SNAPSHOTS] =
                                               remaining \ {msg.ticker}]
            ELSE s
    IN  IF s1.raise # "none" THEN s1
        ELSE [s1 EXCEPT !.order_books = DictSet(@, msg.ticker, msg.content)]

\* set.remove raises KeyError for an element that is not in the set; the
\* book is built after the barrier update.
on_order_book_snapshot(s, msg) ==
    LET s1 ==
            IF Has(s.starting_barriers, ORDERBOOK_SNAPSHOTS)
            THEN LET remaining == s.starting_barriers[ORDERBOOK_SNAPSHOTS]
                 IN  IF msg.ticker \notin remaining
                     THEN Raise(s, "KeyError")
                     ELSE IF remaining \ {msg.ticker} = {}
                          THEN [s EXCEPT !.starting_barriers = DictPop(@, ORDERBOOK_SNAPSHOTS)]
                          ELSE [s EXCEPT !.starting_barriers[ORDERBOOK_SNAPSHOTS] =
                                               remaining \ {msg.ticker}]
            ELSE s
    IN  IF s1.raise # "none" THEN s1
        ELSE [s1 EXCEPT !.order_books = DictSet(@, msg.ticker, msg.content)]

\* OrderBook.update(price, quantity, is_bid): the level takes the quantity.
BookUpdate(book, quantity) == quantity

RECURSIVE ApplyUpdates(_, _)

\* for price, quantity, is_bid in msg.updates: book.update(...)
ApplyUpdates(book, updates) ==
    IF updates = << >> THEN book
    ELSE ApplyUpdates(BookUpdate(book, Head(updates)), Tail(updates))

\* An update handler that opens a book for a ticker that has none.
on_order_book_update_creates(s, msg) ==
    [s EXCEPT !.order_books =
        DictSet(@, msg.ticker,
                ApplyUpdates(IF Has(@, msg.ticker) THEN @[msg.ticker] ELSE 0, msg.updates))]

\* order_books.get(key, None): an update for a ticker without a book is
\* dropped.
on_order_book_update(s, msg) ==
    IF Has(s.order_books, msg.ticker)
    THEN [s EXCEPT !.order_books[msg.ticker] = ApplyUpdates(@, msg.updates)]
    ELSE s

\* A mass-cancel handler that takes a rejection for an acknowledgement.
on_order_mass_cancel_report_any_response(s, msg) ==
    IF Has(s.stopping_barriers, CANCEL_OPEN_ORDERS)
    THEN LET remaining == s.stopping_barriers[CANCEL_OPEN_ORDERS]
         IN  IF msg.ticker \notin remaining
             THEN Raise(s, "KeyError")
             ELSE IF remaining \ {msg.ticker} = {}
                  THEN [s EXCEPT !.stopping_barriers = DictPop(@, CANCEL_OPEN_ORDERS)]
                  ELSE [s EXCEPT !.stopping_barriers[CANCEL_OPEN_ORDERS] =
                                     remaining \ {msg.ticker}]
    ELSE s

\* A mass-cancel handler that leaves the emptied entry in the mapping.
on_order_mass_cancel_report_keeps_key(s, msg) ==
    IF Has(s.stopping_barriers, CANCEL_OPEN_ORDERS)
    THEN LET remaining == s.stopping_barriers[CANCEL_OPEN_ORDERS]
         IN  IF msg.response # "REJECTED" /\ msg.ticker \notin remaining
             THEN Raise(s, "KeyError")
             ELSE IF msg.response # "REJECTED"
                  THEN [s EXCEPT !.stopping_barriers[CANCEL_OPEN_ORDERS] =
                                     remaining \ {msg.ticker}]
                  ELSE s
    ELSE s

on_order_mass_cancel_report(s, msg) ==
    IF Has(s.stopping_barriers, CANCEL_OPEN_ORDERS)
    THEN LET remaining == s.stopping_barriers[CANCEL_OPEN_ORDERS]
         IN  IF msg.response # "REJECTED" /\ msg.ticker \notin remaining
             THEN Raise(s, "KeyError")
             ELSE LET left == IF msg.response # "REJECTED"
                              THEN remaining \ {msg.ticker} ELSE remaining
                  IN  IF left = {}
                      THEN [s EXCEPT !.stopping_barriers = DictPop(@, CANCEL_OPEN_ORDERS)]
                      ELSE [s EXCEPT !.stopping_barriers[CANCEL_OPEN_ORDERS] = left]
    ELSE s

\* A mass-status result: kind "orders" (MassStatusExecReport, with the
\* tickers of its reports) or "no_orders" (MassStatusExecReportNoOrders).
\* The subscript starting_barriers[WORKING_ORDERS] raises KeyError when the
\* key is absent.
on_mass_status_exec_report(s0, m) ==
    LET s == Call(s0, "on_mass_status_exec_report", m.keys, TRUE) IN
    IF ~Has(s.starting_barriers, WORKING_ORDERS)
    THEN Raise(s, "KeyError")
    ELSE LET remaining == s.starting_barriers[WORKING_ORDERS] IN
         IF m.keys \subseteq remaining
         THEN LET s1 == IF m.kind = "orders"
                        THEN Call(s, "order_tracker.set_snapshots", m.keys, TRUE)
                        ELSE s
              IN  IF remaining \ m.keys = {}
                  THEN [s1 EXCEPT !.starting_barriers = DictPop(@, WORKING_ORDERS)]
                  ELSE [s1 EXCEPT !.starting_barriers[WORKING_ORDERS] = remaining \ m.keys]
         ELSE s

SeqRange(q) == {q[i] : i \in 1..Len(q)}

\* OrderTracker.process: a new order becomes open, any other status of a
\* normal report closes it.
TrackerProcess(open, msg) ==
    IF msg.ord_status = "0" THEN open \cup {msg.ord_id} ELSE open \ {msg.ord_id}

\* A reject test that looks at the execution type only.
is_reject_by_exec_type(msg) == msg.exec_type = "8"

\* exec_type == ExecType_REJECTED or ord_status == OrdStatus_REJECTED
is_reject(msg) == msg.exec_type = "8" \/ msg.ord_status = "8"

\* A tracker branch that reads the open orders before the tracker has
\* processed the report.
process_exec_report_stale(s, msg) ==
    LET s1 == Call([s EXCEPT !.open_orders = TrackerProcess(@, msg)],
                   "order_tracker.process", {}, TRUE)
    IN  IF Has(s1.stopping_barriers, CANCEL_OPEN_ORDERS)
        THEN IF s.open_orders # {} THEN s1
             ELSE [s1 EXCEPT !.stopping_barriers = DictPop(@, CANCEL_OPEN_ORDERS)]
        ELSE s1

\* The else branch of on_exec_report: the tracker processes the report, then
\* CANCEL_OPEN_ORDERS is popped if it is present and no order is open.
process_exec_report(s, msg) ==
    LET s1 == Call([s EXCEPT !.open_orders = TrackerProcess(@, msg)],
                   "order_tracker.process", {}, TRUE)
    IN  IF Has(s1.stopping_barriers, CANCEL_OPEN_ORDERS)
        THEN IF s1.open_orders # {} THEN s1
             ELSE [s1 EXCEPT !.stopping_barriers = DictPop(@, CANCEL_OPEN_ORDERS)]
        ELSE s1

on_exec_report(s, msg) ==
    IF msg.exec_type = "I" THEN
        IF msg.ord_status = "8" THEN
            on_mass_status_exec_report(s, [kind |-> "no_orders", keys |-> {msg.ticker}])
        ELSE IF msg.is_mass_status THEN
            LET buf == Append(s.mass_status_exec_reports, msg.ticker)
                s1 == [s EXCEPT !.mass_status_exec_reports = buf]
            IN  IF Len(buf) = msg.tot_num_reports /\ msg.last_rpt_requested
                THEN LET r == on_mass_status_exec_report(
                                  s1, [kind |-> "orders", keys |-> SeqRange(buf)])
                     IN  IF r.raise # "none" THEN r
                         ELSE [r EXCEPT !.mass_status_exec_reports = << >>]
                ELSE s1
        ELSE Call(s, "on_status_exec_report", {}, TRUE)
    ELSE IF is_reject(msg) THEN
        Call(s, "on_reject_exec_report", {}, TRUE)
    ELSE
        process_exec_report(s, msg)

\* The isinstance chain of dispatch(): the handler of the message's type.
Route(s, msg) ==
    CASE msg.type = "OrderBookUpdate" -> on_order_book_update(s, msg)
      [] msg.type = "ExecReport" -> on_exec_report(s, msg)
      [] msg.type = "PositionReports" -> on_position_reports(s, msg)
      [] msg.type = "Heartbeat" -> on_heartbeat(s, msg)
      [] msg.type = "OrderMassCancelReport" -> on_order_mass_cancel_report(s, msg)
      [] msg.type = "OrderBookSnapshot" -> on_order_book_snapshot(s, msg)
      [] msg.type = "SecurityReport" -> on_security_report(s, msg)
      [] msg.type = "GatewayNotReady" -> on_gateway_not_ready(s, msg)
      [] msg.type = "Logon" -> on_logon(s, msg)
      [] msg.type = "Logout" -> on_logout(s, msg)
      [] OTHER -> s

\* --------------------------------------------------------- RandomStrategy
\* The RandomStrategy of random_strategy.py drives a PhxApi object from its
\* own loop.  Its clock counts seconds since the epoch; the object is
\* constructed at random_start_time.
random_start_time == 2

\* The clock is not read after the loop has seen the time-out, which is
\* before MaxClock; a later time is kept as MaxClock, and ticking flips
\* whenever time passes, so that a sleep is a step at any time.
MaxClock == random_start_time + random_timeout + 2 * trade_interval + 2 * MaxSleep

Later(clock, d) == IF clock + d > MaxClock THEN MaxClock ELSE clock + d

Sleep(r, d) == [r EXCEPT !.clock = Later(@, d), !.ticking = ~@]

NoOrders == [t \in Tickers |-> 0]

\* The object after __init__, at the loop test of strategy_loop.  rpc is the
\* position in strategy_loop; todo is the rest of the symbols of the submit
\* method in progress, and sent, consumed, granted and abandoned are what
\* that method has done so far; trades counts the calls of trade().
RandomStrategy ==
    [to_stop |-> FALSE, api_finished |-> FALSE, caught |-> FALSE, rpc |-> "test",
     clock |-> random_start_time, ticking |-> FALSE, last_trade_time |-> 0, trading_mode |-> "limit",
     ready |-> FALSE, todo |-> << >>, submit_start_time |-> 0,
     sent |-> NoOrders, consumed |-> NoOrders, granted |-> NoOrders,
     abandoned |-> FALSE, trades |-> 0]

\* while not api_finished: / if not self.phx_api.to_stop:
random_loop_test(r) ==
    IF r.api_finished THEN [r EXCEPT !.rpc = "exit"]
    ELSE IF r.to_stop THEN [r EXCEPT !.rpc = "sleep", !.ready = FALSE]
    ELSE [r EXCEPT !.rpc = "ready", !.ready = FALSE]

\* A loop that trades whatever is_ready_to_trade() returned.
random_is_ready_to_trade_ignored(r, ready) ==
    [r EXCEPT !.ready = ready, !.rpc = "trade"]

\* if self.is_ready_to_trade(): self.trade()
random_is_ready_to_trade(r, ready) ==
    [r EXCEPT !.ready = ready, !.rpc = IF ready THEN "trade" ELSE "check"]

\* trade(): a trading step is run if trade_interval has passed since the
\* last one, with the submit method of the current trading mode.
random_trade(r) ==
    LET r1 == [r EXCEPT !.trades = @ + 1] IN
    IF r1.clock > r1.last_trade_time + trade_interval
    THEN [r1 EXCEPT !.last_trade_time = r1.clock, !.submit_start_time = r1.clock,
                    !.todo = [i \in 1..NTickers |-> i],
                    !.sent = NoOrders, !.consumed = NoOrders, !.granted = NoOrders,
                    !.abandoned = FALSE, !.rpc = "symbol"]
    ELSE [r1 EXCEPT !.rpc = "check"]

\* The submit method returns into trade(), which switches the trading mode.
random_submit_return(r) ==
    [r EXCEPT !.trading_mode = IF @ = "limit" THEN "market" ELSE "limit",
              !.todo = << >>, !.rpc = "check"]

\* for symbol in symbols: a symbol without a book or a price is skipped.
random_next_symbol(r, priced) ==
    IF r.todo = << >> THEN random_submit_return(r)
    ELSE IF priced THEN [r EXCEPT !.rpc = "retry"]
    ELSE [r EXCEPT !.todo = Tail(@)]

\* A retry that never gives up.
random_retry_unbounded(r, capacity, d) ==
    LET t == Head(r.todo) IN
    IF capacity
    THEN [r EXCEPT !.granted[t] = @ + 1, !.consumed[t] = @ + 1, !.sent[t] = @ + 1,
                   !.todo = Tail(@), !.rpc = "symbol"]
    ELSE Sleep(r, d)

\* One pass of while not sent_order: with capacity the limiter is consumed
\* and the order is sent; without, the method returns if more than
\* trade_interval has passed since its start, and sleeps a second otherwise.
random_retry(r, capacity, d) ==
    LET t == Head(r.todo) IN
    IF capacity
    THEN [r EXCEPT !.granted[t] = @ + 1, !.consumed[t] = @ + 1, !.sent[t] = @ + 1,
                   !.todo = Tail(@), !.rpc = "symbol"]
    ELSE IF r.clock - r.submit_start_time > trade_interval
         THEN random_submit_return([r EXCEPT !.abandoned = TRUE])
         ELSE Sleep(r, d)

\* check_if_completed(), and to_stop set when the time is out.
random_check_if_completed(r) ==
    LET time_is_out == r.clock >= random_start_time + random_timeout IN
    [r EXCEPT !.to_stop = IF time_is_out THEN TRUE ELSE @, !.rpc = "sleep"]

\* time.sleep(trade_interval), then api_finished = phx_api.is_finished().
random_sleep(r, finished) ==
    [Sleep(r, trade_interval) EXCEPT !.api_finished = finished, !.rpc = "test"]

\* except Exception: to_stop is set and strategy_loop returns.
random_except(r) ==
    [r EXCEPT !.to_stop = TRUE, !.caught = TRUE, !.rpc = "exit"]

RECURSIVE HandleAll(_, _)

\* The handlers of a sequence of messages called one after the other, up to
\* the first that raises.
HandleAll(s, msgs) ==
    IF msgs = << >> \/ s.raise # "none" THEN s
    ELSE HandleAll(Route(s, Head(msgs)), Tail(msgs))

\* ------------------------------------------------------------------ steps
Commit(s) ==
    /\ current_exec_state' = s.current_exec_state
    /\ logged_in' = s.logged_in
    /\ completed' = s.completed
    /\ timed_out' = s.timed_out
    /\ exception' = s.exception
    /\ starting_reference' = s.starting_reference
    /\ starting_barriers' = s.starting_barriers
    /\ stopping_reference' = s.stopping_reference
    /\ stopping_barriers' = s.stopping_barriers
    /\ order_books' = s.order_books
    /\ mass_status_exec_reports' = s.mass_status_exec_reports
    /\ open_orders' = s.open_orders

Called(calls, fn) == \E i \in 1..Len(calls) : calls[i].fn = fn
CountCalls(calls, fn) == Cardinality({i \in 1..Len(calls) : calls[i].fn = fn})
CalledTickers(calls, fn) ==
    UNION {calls[i].tickers : i \in {j \in 1..Len(calls) : calls[j].fn = fn}}

NoneDispatched ==
    [security |-> FALSE, position |-> FALSE, snapshots |-> {}, mass_status |-> {}]

\* The calls a handler makes; the others are made by the evaluation.
HandlerCalls ==
    {"on_mass_status_exec_report", "order_tracker.set_snapshots",
     "position_tracker.set_snapshots", "order_tracker.process",
     "on_status_exec_report", "on_reject_exec_report"}

IsEvaluationCall(c) == c.fn \notin HandlerCalls

\* The outcome of the latest handler or evaluation call: the exception the
\* handler raised into dispatch()'s except clause, the exception that left
\* the call, and the calls the evaluation made.
Did(caught, r) ==
    [caught |-> caught, raised |-> r.raise, calls |-> SelectSeq(r.calls, IsEvaluationCall)]

\* The acknowledgements handled in STARTING since starting().
Record(msg, r) ==
    IF current_exec_state # "STARTING" \/ r.current_exec_state # "STARTING"
    THEN NoneDispatched
    ELSE [security |-> dispatched.security \/ msg.type = "SecurityReport",
          position |-> dispatched.position \/ msg.type = "PositionReports",
          snapshots |-> dispatched.snapshots \cup
                        (IF msg.type = "OrderBookSnapshot" THEN {msg.ticker} ELSE {}),
          mass_status |-> dispatched.mass_status \cup
                          CalledTickers(r.calls, "on_mass_status_exec_report")]

\* The mass-status buffer grows without bound when a batch never completes.
Accepts(msg) ==
    (msg.type = "ExecReport" /\ msg.exec_type = "I" /\ msg.ord_status # "8"
        /\ msg.is_mass_status)
    => Len(mass_status_exec_reports) < MaxReports

\* The object after construction.  The symbol sets and cancel_orders_on_exit
\* are any the constructor accepts; use_mass_cancel_request has its default.
Init ==
    /\ mkt_symbols \in SUBSET Tickers
    /\ trading_symbols \in SUBSET Tickers
    /\ cancel_orders_on_exit \in BOOLEAN
    /\ use_mass_cancel_request = TRUE
    /\ current_exec_state = "STOPPED"
    /\ logged_in = FALSE
    /\ completed = FALSE
    /\ timed_out = FALSE
    /\ exception = "none"
    /\ starting_reference = EmptyDict
    /\ starting_barriers = EmptyDict
    /\ stopping_reference = EmptyDict
    /\ stopping_barriers = EmptyDict
    /\ order_books = EmptyDict
    /\ mass_status_exec_reports = << >>
    /\ open_orders = {}
    /\ now = start_time
    /\ pc = "idle"
    /\ last = Did("none", Self)
    /\ dispatched = NoneDispatched
    /\ random = RandomStrategy

\* The clock advances.
Tick ==
    /\ pc # "raised"
    /\ now < MaxNow
    /\ now' = now + 1
    /\ UNCHANGED <<random, config, fields, pc, last, dispatched>>

\* The caller invokes a handler while dispatch() is not running.  An
\* exception that reaches the caller ends the run.
CallHandler(msg) ==
    /\ pc = "idle"
    /\ Accepts(msg)
    /\ LET r == Route(Self, msg) IN
        /\ Commit(r)
        /\ last' = Did("none", r)
        /\ dispatched' = Record(msg, r)
        /\ pc' = IF r.raise = "none" THEN "idle" ELSE "raised"
    /\ UNCHANGED <<random, config, now>>

\* The caller invokes exec_state_evaluation() while dispatch() is not running.
CallEvaluation ==
    /\ pc = "idle"
    /\ LET r == exec_state_evaluation(Self) IN
        /\ Commit(r)
        /\ last' = Did("none", r)
        /\ dispatched' = Record([type |-> "none"], r)
        /\ pc' = IF r.raise = "none" THEN "idle" ELSE "raised"
    /\ UNCHANGED <<random, config, now>>

\* The caller invokes dispatch(): the loop test, and the wait on the queue.
CallDispatch ==
    /\ pc = "idle"
    /\ pc' = IF completed THEN "idle" ELSE "pop"
    /\ UNCHANGED <<random, config, fields, now, last, dispatched>>

\* The except clause of dispatch(): the exception is recorded, then
\* StrategyExecState.EXCEPTION is looked up for the assignment.
DispatchExcept(r) ==
    LET r1 == [r EXCEPT !.exception = r.raise, !.raise = "none"]
    IN  IF "EXCEPTION" \notin StrategyExecState
        THEN Raise(r1, "AttributeError")
        ELSE SetState(r1, "EXCEPTION")

\* One message is popped and routed inside the try of dispatch().
DispatchPop(msg) ==
    /\ pc = "pop"
    /\ Accepts(msg)
    /\ LET h == Route(Self, msg)
           r == IF h.raise = "none" THEN h ELSE DispatchExcept(h)
       IN
        /\ Commit(r)
        /\ last' = Did(h.raise, r)
        /\ dispatched' = Record(msg, r)
        /\ pc' = IF r.raise = "none" THEN "eval" ELSE "raised"
    /\ UNCHANGED <<random, config, now>>

\* One iteration of the loop of dispatch() on a popped message, as a function:
\* the handler, the except clause if it raised, and the evaluation, which an
\* exception that leaves the except clause skips.
DispatchIteration(s, msg) ==
    LET h == Route(s, msg)
        r == IF h.raise = "none" THEN h ELSE DispatchExcept(h)
    IN  IF r.raise # "none" THEN r ELSE exec_state_evaluation(r)

\* Two iterations: the second message is popped if the first iteration left
\* no exception and the loop test finds completed false.
DispatchTwo(s, a, b) ==
    LET r == DispatchIteration(s, a) IN
        IF r.raise # "none" \/ r.completed THEN r ELSE DispatchIteration(r, b)

\* queue.Empty: the wait timed out, nothing is routed.
DispatchQueueEmpty ==
    /\ pc = "pop"
    /\ pc' = "eval"
    /\ UNCHANGED <<random, config, fields, now, last, dispatched>>

\* The evaluation that ends an iteration of dispatch(), and the loop test.
DispatchEvaluate ==
    /\ pc = "eval"
    /\ LET r == exec_state_evaluation(Self) IN
        /\ Commit(r)
        /\ last' = Did("none", r)
        /\ dispatched' = Record([type |-> "none"], r)
        /\ pc' = IF r.raise # "none" THEN "raised"
                 ELSE IF r.completed THEN "idle" ELSE "pop"
    /\ UNCHANGED <<random, config, now>>

Next ==
    \/ Tick
    \/ \E msg \in LifeCycleMessages : CallHandler(msg)
    \/ CallEvaluation
    \/ CallDispatch
    \/ \E msg \in LifeCycleMessages : DispatchPop(msg)
    \/ DispatchQueueEmpty
    \/ DispatchEvaluate

Spec == Init /\ [][Next]_vars

\* The order books: a strategy with any market tickers that is logged on and
\* started by the caller's calls, and receives snapshots and updates.
BookMessages == {[type |-> "Logon"]} \cup SnapshotMessages \cup UpdateMessages

BookInit ==
    /\ Init
    /\ trading_symbols = Tickers
    /\ cancel_orders_on_exit

BookNext ==
    \/ \E msg \in BookMessages : CallHandler(msg)
    \/ CallEvaluation

BookSpec == BookInit /\ [][BookNext]_vars

\* The outcome of the latest call with every call it made.
DidAll(r) == [caught |-> "none", raised |-> r.raise, calls |-> r.calls]

\* The caller invokes a handler; every call the handler makes is kept.
CallReportHandler(msg) ==
    /\ pc = "idle"
    /\ Accepts(msg)
    /\ LET r == Route(Self, msg) IN
        /\ Commit(r)
        /\ last' = DidAll(r)
        /\ dispatched' = Record(msg, r)
        /\ pc' = IF r.raise = "none" THEN "idle" ELSE "raised"
    /\ UNCHANGED <<random, config, now>>

\* The orders: a strategy with one ticker that is logged on, started and
\* stopped by the caller's calls, and receives execution reports of every
\* kind next to the acknowledgements of the start-up.
OrdersMessages ==
    {[type |-> "Logon"], [type |-> "SecurityReport"], [type |-> "PositionReports"]}
    \cup {m \in SnapshotMessages : m.ticker = 1}
    \cup {m \in ExecReportMessages :
            /\ m.ticker = 1
            /\ IsMassStatusReport(m) => (m.tot_num_reports = 1 /\ m.last_rpt_requested)}

OrdersInit ==
    /\ Init
    /\ mkt_symbols = {1}
    /\ trading_symbols = {1}

OrdersNext ==
    \/ Tick
    \/ \E msg \in OrdersMessages : CallReportHandler(msg)
    \/ CallEvaluation

OrdersSpec == OrdersInit /\ [][OrdersNext]_vars

\* The same strategy constructed with use_mass_cancel_request false and
\* cancel_orders_on_exit true: open orders are cancelled one by one.
SingleCancelInit ==
    /\ mkt_symbols = {1}
    /\ trading_symbols = {1}
    /\ cancel_orders_on_exit = TRUE
    /\ use_mass_cancel_request = FALSE
    /\ current_exec_state = "STOPPED"
    /\ logged_in = FALSE
    /\ completed = FALSE
    /\ timed_out = FALSE
    /\ exception = "none"
    /\ starting_reference = EmptyDict
    /\ starting_barriers = EmptyDict
    /\ stopping_reference = EmptyDict
    /\ stopping_barriers = EmptyDict
    /\ order_books = EmptyDict
    /\ mass_status_exec_reports = << >>
    /\ open_orders = {}
    /\ now = start_time
    /\ pc = "idle"
    /\ last = Did("none", Self)
    /\ dispatched = NoneDispatched
    /\ random = RandomStrategy

SingleCancelSpec == SingleCancelInit /\ [][OrdersNext]_vars

\* The steps of RandomStrategy.strategy_loop.  The StrategyBase object is not
\* involved.
base == <<config, fields, now, pc, last, dispatched>>

RandomLoopTest ==
    /\ random.rpc = "test"
    /\ random' = random_loop_test(random)
    /\ UNCHANGED base

\* is_ready_to_trade() returns what the API's dependencies and the rate
\* limiter say.
RandomIsReadyToTrade ==
    /\ random.rpc = "ready"
    /\ \E ready \in BOOLEAN : random' = random_is_ready_to_trade(random, ready)
    /\ UNCHANGED base

RandomTrade ==
    /\ random.rpc = "trade"
    /\ random' = random_trade(random)
    /\ UNCHANGED base

RandomNextSymbol ==
    /\ random.rpc = "symbol"
    /\ \E priced \in BOOLEAN : random' = random_next_symbol(random, priced)
    /\ UNCHANGED base

\* The limiter answers has_capacity; a sleep takes a second or more.
RandomRetry ==
    /\ random.rpc = "retry"
    /\ \E capacity \in BOOLEAN : \E d \in 1..MaxSleep :
           random' = random_retry(random, capacity, d)
    /\ UNCHANGED base

RandomCheckIfCompleted ==
    /\ random.rpc = "check"
    /\ random' = random_check_if_completed(random)
    /\ UNCHANGED base

RandomSleep ==
    /\ random.rpc = "sleep"
    /\ \E finished \in BOOLEAN : random' = random_sleep(random, finished)
    /\ UNCHANGED base

\* A call of the API raises inside the try of strategy_loop.
RandomRaises ==
    /\ random.rpc \in {"ready", "symbol", "retry", "sleep"}
    /\ random' = random_except(random)
    /\ UNCHANGED base

RandomInit ==
    /\ Init
    /\ mkt_symbols = Tickers
    /\ trading_symbols = Tickers
    /\ cancel_orders_on_exit

RandomNext ==
    \/ RandomLoopTest
    \/ RandomIsReadyToTrade
    \/ RandomTrade
    \/ RandomNextSymbol
    \/ RandomRetry
    \/ RandomCheckIfCompleted
    \/ RandomSleep
    \/ RandomRaises

RandomSpec == RandomInit /\ [][RandomNext]_vars

\* strategy_loop runs on its own thread and always takes its next step.
RandomFairSpec == RandomSpec /\ WF_vars(RandomNext)

\* The dispatch loop always goes on: the wait on the queue times out, and
\* the evaluation follows.  No message has to arrive.
FairSpec ==
    /\ Init
    /\ [][Next]_vars
    /\ WF_vars(DispatchQueueEmpty)
    /\ WF_vars(DispatchEvaluate)

\* ------------------------------- start-up -------------------------------

\* Every acknowledgement of the start-up has been handled in STARTING.
AllDispatched ==
    /\ dispatched.security
    /\ dispatched.position
    /\ mkt_symbols \subseteq dispatched.snapshots
    /\ trading_symbols \subseteq dispatched.mass_status

\* C1: in STARTING, once the security report, a snapshot for every market
\* ticker, a mass-status result for every trading ticker and a position
\* batch have been handled, in any order, the starting barriers are empty and
\* the next evaluation moves the state to STARTED, whatever the market and
\* trading tickers are.
C1_AllDispatchedThenStarted ==
    (current_exec_state = "STARTING" /\ AllDispatched /\ pc \in {"idle", "eval"})
    => /\ Len0(starting_barriers) = 0
       /\ exec_state_evaluation(Self).current_exec_state = "STARTED"

\* C2: a call of trade() finds the state STARTED and the starting barriers
\* empty, and an evaluation that finds any state other than STARTED, or
\* STARTING with the barriers empty, makes no call of trade().
C2_TradeOnlyWhenStarted ==
    /\ \A i \in 1..Len(last.calls) :
        last.calls[i].fn = "trade" => last.calls[i].ready
    /\ (pc \in {"idle", "eval"} /\ Called(exec_state_evaluation(Self).calls, "trade"))
       => \/ current_exec_state = "STARTED"
          \/ current_exec_state = "STARTING" /\ Len0(starting_barriers) = 0

C2_Witness ==
    /\ Called(last.calls, "trade")
    /\ current_exec_state = "STARTED"
    /\ Len0(starting_barriers) = 0

\* C3: a call of app_runner.stop is made by an evaluation in STOPPING with no
\* CANCEL_OPEN_ORDERS entry outstanding, and that evaluation leaves the state
\* STOPPED when the run may still start and FINISHED otherwise; an evaluation
\* in STOPPING with the entry outstanding makes no such call.
C3_StopOnlyWhenCancelled ==
    /\ \A i \in 1..Len(last.calls) :
        last.calls[i].fn = "app_runner.stop" => last.calls[i].ready
    /\ pc \in {"idle", "eval"} =>
        LET r == exec_state_evaluation(Self) IN
            /\ Called(r.calls, "app_runner.stop") =>
                /\ current_exec_state = "STOPPING"
                /\ ~Has(stopping_barriers, CANCEL_OPEN_ORDERS)
                /\ r.current_exec_state =
                       IF ~timed_out /\ ~completed THEN "STOPPED" ELSE "FINISHED"
            /\ (current_exec_state = "STOPPING"
                    /\ Has(stopping_barriers, CANCEL_OPEN_ORDERS)) =>
                /\ ~Called(r.calls, "app_runner.stop")
                /\ r.current_exec_state = "STOPPING"

C3_Witness ==
    /\ Called(last.calls, "app_runner.stop")
    /\ current_exec_state = "FINISHED"
    /\ cancel_orders_on_exit
    /\ logged_in
    /\ ~Has(stopping_barriers, CANCEL_OPEN_ORDERS)

\* C4: dispatch() does not return while the state is STOPPING.
C4_NoReturnWhileStopping ==
    [][(pc \in {"pop", "eval"} /\ pc' = "idle") => current_exec_state' # "STOPPING"]_vars

\* C5: an exception that a handler raises during dispatch is recorded in the
\* exception field and the state becomes EXCEPTION, and no exception leaves
\* exec_state_evaluation() or dispatch().
C5_FaultsAbsorbed ==
    /\ last.caught # "none" =>
        /\ exception = last.caught
        /\ current_exec_state = "EXCEPTION"
        /\ last.raised = "none"
    /\ last.raised # "AttributeError"

\* ------------------------------- time-out -------------------------------

\* C6: an evaluation that finds the state STARTED calls trade() once; when
\* the clock has reached start_time + timeout it then runs stopping(), sets
\* timed_out and completed and leaves the state STOPPING; before that instant
\* it runs no stopping() and leaves the state STARTED.
C6_TimeoutInStarted ==
    /\ (pc \in {"idle", "eval"} /\ current_exec_state = "STARTED") =>
        LET r == exec_state_evaluation(Self) IN
            /\ r.raise = "none"
            /\ CountCalls(r.calls, "trade") = 1
            /\ IF now >= start_time + timeout
               THEN /\ CountCalls(r.calls, "stopping") = 1
                    /\ r.timed_out
                    /\ r.completed
                    /\ r.current_exec_state = "STOPPING"
               ELSE /\ ~Called(r.calls, "stopping")
                    /\ ~r.timed_out
                    /\ ~r.completed
                    /\ r.current_exec_state = "STARTED"
    /\ Called(last.calls, "stopping") =>
        /\ now >= start_time + timeout
        /\ CountCalls(last.calls, "trade") = 1
        /\ timed_out
        /\ completed
        /\ current_exec_state = "STOPPING"

C6_Witness ==
    /\ Called(last.calls, "stopping")
    /\ Called(last.calls, "trade")
    /\ current_exec_state = "STOPPING"
    /\ timed_out
    /\ completed

\* C7: once the clock has reached start_time + timeout, a running dispatch()
\* ends, whatever the state is.
C7_TimeoutEndsDispatch ==
    (pc \in {"pop", "eval"} /\ now >= start_time + timeout) ~> (pc \notin {"pop", "eval"})

\* ------------------------ repeated acknowledgements ------------------------

\* The handler is called with msg, by the caller or by dispatch().
Handles(msg) == CallHandler(msg) \/ DispatchPop(msg)

NoFault == last'.raised = "none" /\ last'.caught = "none"

\* The snapshot requirement of ticker t was installed and is satisfied.
SnapshotSatisfied(t) ==
    /\ Has(starting_reference, ORDERBOOK_SNAPSHOTS)
    /\ t \in starting_reference[ORDERBOOK_SNAPSHOTS]
    /\ Has(starting_barriers, ORDERBOOK_SNAPSHOTS) => t \notin starting_barriers[ORDERBOOK_SNAPSHOTS]

\* C8: a snapshot for a ticker whose requirement is already satisfied, the
\* key gone or other tickers still outstanding, raises no fault, changes
\* neither the barriers nor the state, and replaces the book of the ticker.
C8_DuplicateSnapshotHarmless ==
    [][\A msg \in SnapshotMessages :
        (SnapshotSatisfied(msg.ticker) /\ Handles(msg)) =>
            /\ NoFault
            /\ starting_barriers' = starting_barriers
            /\ current_exec_state' = current_exec_state
            /\ Has(order_books', msg.ticker)
            /\ order_books'[msg.ticker] = msg.content]_vars

\* msg completes a mass-status result whose tickers are not all outstanding
\* under WORKING_ORDERS, the key absent included.
MassStatusNotOutstanding(msg) ==
    LET h == Route(Self, msg) IN
        /\ Called(h.calls, "on_mass_status_exec_report")
        /\ ~ /\ Has(starting_barriers, WORKING_ORDERS)
             /\ CalledTickers(h.calls, "on_mass_status_exec_report")
                    \subseteq starting_barriers[WORKING_ORDERS]

\* C9: a mass-status result whose tickers are not all outstanding under
\* WORKING_ORDERS, the key cleared or not yet installed included, raises no
\* fault and changes neither the barriers, the tracker nor the state.
C9_StrayMassStatusHarmless ==
    [][\A msg \in ExecReportMessages :
        (MassStatusNotOutstanding(msg) /\ Handles(msg)) =>
            /\ NoFault
            /\ ~Called(Route(Self, msg).calls, "order_tracker.set_snapshots")
            /\ starting_barriers' = starting_barriers
            /\ open_orders' = open_orders
            /\ current_exec_state' = current_exec_state]_vars

\* C10: a mass-cancel report that is not a rejection, for a ticker that is
\* not outstanding under CANCEL_OPEN_ORDERS, changes nothing and raises no
\* fault, the key present or absent.
C10_StrayMassCancelIgnored ==
    [][\A msg \in MassCancelMessages :
        (/\ msg.response # "REJECTED"
         /\ Has(stopping_barriers, CANCEL_OPEN_ORDERS) =>
                msg.ticker \notin stopping_barriers[CANCEL_OPEN_ORDERS]
         /\ Handles(msg)) =>
            /\ NoFault
            /\ stopping_barriers' = stopping_barriers
            /\ current_exec_state' = current_exec_state]_vars

\* ------------------------------- wind-down -------------------------------

\* The tickers outstanding under CANCEL_OPEN_ORDERS.
CancelOutstanding ==
    IF Has(stopping_barriers, CANCEL_OPEN_ORDERS)
    THEN stopping_barriers[CANCEL_OPEN_ORDERS] ELSE {}

\* C11: in STOPPING, a mass-cancel report that is not a rejection, for an
\* outstanding ticker, raises nothing and removes that ticker and no other
\* from CANCEL_OPEN_ORDERS; when it was the last one the key is removed, and
\* the evaluation that follows calls app_runner.stop once and leaves
\* STOPPING.
C11_MassCancelCompletesStop ==
    (pc = "idle" /\ current_exec_state = "STOPPING") =>
        \A msg \in MassCancelMessages :
            (msg.response # "REJECTED" /\ msg.ticker \in CancelOutstanding) =>
                LET h == Route(Self, msg)
                    r == exec_state_evaluation(h)
                IN  /\ h.raise = "none"
                    /\ h.current_exec_state = "STOPPING"
                    /\ IF CancelOutstanding = {msg.ticker}
                       THEN /\ ~Has(h.stopping_barriers, CANCEL_OPEN_ORDERS)
                            /\ r.raise = "none"
                            /\ CountCalls(r.calls, "app_runner.stop") = 1
                            /\ r.current_exec_state \in {"STOPPED", "FINISHED"}
                       ELSE /\ Has(h.stopping_barriers, CANCEL_OPEN_ORDERS)
                            /\ h.stopping_barriers[CANCEL_OPEN_ORDERS] =
                                   CancelOutstanding \ {msg.ticker}
                            /\ ~Called(r.calls, "app_runner.stop")
                            /\ r.current_exec_state = "STOPPING"

\* One of two tickers has been acknowledged, the other is outstanding.
C11_Witness ==
    /\ current_exec_state = "STOPPING"
    /\ Cardinality(trading_symbols) = 2
    /\ Cardinality(CancelOutstanding) = 1
    /\ CancelOutstanding \subseteq trading_symbols
    /\ pc = "idle"

\* C12: in STOPPING with the key CANCEL_OPEN_ORDERS present, a mass-cancel
\* report with response REJECTED raises nothing and leaves the stopping
\* barriers as they were, key and outstanding set, and the evaluation that
\* follows calls no app_runner.stop and leaves the state STOPPING.
C12_RejectedKeepsWaiting ==
    (/\ pc = "idle"
     /\ current_exec_state = "STOPPING"
     /\ Has(stopping_barriers, CANCEL_OPEN_ORDERS)) =>
        \A msg \in MassCancelMessages :
            msg.response = "REJECTED" =>
                LET h == Route(Self, msg)
                    r == exec_state_evaluation(h)
                IN  /\ h.raise = "none"
                    /\ h.stopping_barriers = stopping_barriers
                    /\ ~Called(r.calls, "app_runner.stop")
                    /\ r.current_exec_state = "STOPPING"

\* A handler has been called in STOPPING with one ticker outstanding.
C12_Witness ==
    /\ current_exec_state = "STOPPING"
    /\ pc = "idle"
    /\ Cardinality(CancelOutstanding) = 1
    /\ last.calls = << >>
    /\ last.raised = "none"

\* ------------------------------- barriers -------------------------------

\* C13: every key present in the starting barriers or in the stopping
\* barriers maps to a non-empty set or to a count that is not zero.
C13_PresentKeyNotEmpty ==
    /\ \A k \in DOMAIN starting_barriers :
        IF k \in {ORDERBOOK_SNAPSHOTS, WORKING_ORDERS}
        THEN starting_barriers[k] # {}
        ELSE starting_barriers[k] # 0
    /\ \A k \in DOMAIN stopping_barriers : stopping_barriers[k] # {}

\* C14: once starting() has installed the barriers, the starting reference
\* is the whole requirement (the four keys, every configured ticker) and no
\* step changes it, whatever is removed from the barriers; and no step
\* changes mkt_symbols or trading_symbols.
C14_ReferenceKept ==
    [][/\ mkt_symbols' = mkt_symbols
       /\ trading_symbols' = trading_symbols
       /\ starting_reference' # EmptyDict => starting_reference' = get_starting_barriers
       /\ starting_reference # EmptyDict => starting_reference' = starting_reference]_vars

\* Every entry has been removed from the barriers, the reference is whole.
C14_Witness ==
    /\ starting_reference = get_starting_barriers
    /\ mkt_symbols # {}
    /\ trading_symbols # {}
    /\ Len0(starting_barriers) = 0

\* ----------------------------- transitions -----------------------------

\* The transitions of the state table.
AllowedTransitions ==
    {<<"STOPPED", "LOGING_IN">>, <<"LOGING_IN", "LOGGED_IN">>,
     <<"LOGGED_IN", "STARTING">>, <<"STARTING", "STARTED">>,
     <<"STARTED", "STOPPING">>, <<"STOPPING", "STOPPED">>,
     <<"STOPPING", "FINISHED">>}
    \cup {<<st, "EXCEPTION">> : st \in StrategyExecState \cup {"EXCEPTION"}}

\* The state before the step r, then every value the step assigned.
StatePath(r) == <<current_exec_state>> \o r.states

FollowsTransitions(p) ==
    \A i \in 1..(Len(p) - 1) : <<p[i], p[i + 1]>> \in AllowedTransitions

\* C15: the state is STOPPED or LOGING_IN until starting() has run; every
\* assignment to the state, by an evaluation (the evaluations it chains
\* included), by a handler or by the except clause of dispatch(), follows a
\* transition of the state table; and an evaluation in FINISHED leaves the
\* state FINISHED.
C15_OnlyTableTransitions ==
    /\ starting_reference = EmptyDict => current_exec_state \in {"STOPPED", "LOGING_IN"}
    /\ pc \in {"idle", "eval"} =>
        LET r == exec_state_evaluation(Self) IN
            /\ FollowsTransitions(StatePath(r))
            /\ r.current_exec_state = StatePath(r)[Len(StatePath(r))]
            /\ current_exec_state = "FINISHED" => r.current_exec_state = "FINISHED"
    /\ pc \in {"idle", "pop"} =>
        \A msg \in LifeCycleMessages :
            LET h == Route(Self, msg)
                r == IF h.raise = "none" \/ pc = "idle" THEN h ELSE DispatchExcept(h)
            IN  /\ h.states = << >>
                /\ FollowsTransitions(StatePath(r))
                /\ r.current_exec_state = StatePath(r)[Len(StatePath(r))]

\* An evaluation went from LOGING_IN through LOGGED_IN to STARTING.
C15_Witness ==
    /\ current_exec_state = "STARTING"
    /\ Called(last.calls, "starting")
    /\ logged_in

\* --------------------------- session faults ---------------------------

\* C16: when dispatch() pops a gateway-not-ready event, in whatever state,
\* the handler sets completed and completed is still set after the
\* evaluation of that iteration, so that dispatch() returns.
C16_GatewayNotReadyEndsRun ==
    pc = "pop" =>
        LET h == Route(Self, [type |-> "GatewayNotReady"])
            r == exec_state_evaluation(h)
        IN  /\ h.raise = "none"
            /\ h.completed
            /\ r.raise = "none"
            /\ r.completed

\* C17: trade() is not called while logged_in is false, and when dispatch()
\* pops a logout event in STARTED the evaluation of that iteration calls no
\* trade() and leaves STARTED, for STOPPING or EXCEPTION.
C17_LogoutEndsRun ==
    /\ Called(last.calls, "trade") => logged_in
    /\ (pc = "pop" /\ current_exec_state = "STARTED") =>
        LET h == Route(Self, [type |-> "Logout"])
            r == exec_state_evaluation(h)
        IN  /\ ~h.logged_in
            /\ ~Called(r.calls, "trade")
            /\ r.current_exec_state \in {"STOPPING", "EXCEPTION"}

\* -------------------------------- timers --------------------------------

\* In the calls c, every call of fn is preceded by a call of before.
Precedes(c, before, fn) ==
    \A i \in 1..Len(c) :
        c[i].fn = fn => \E j \in 1..(i - 1) : c[j].fn = before

C20_TimerLifecycle ==
    /\ current_exec_state = "STARTED" => recurring_timer_is_alive
    /\ Called(last.calls, "stopping") =>
        /\ CountCalls(last.calls, "recurring_timer.cancel") = 1
        /\ CountCalls(last.calls, "recurring_timer.join") = 1

\* ------------------------------ order books ------------------------------

\* C21: an order-book update raises no fault and changes nothing but
\* order_books; for a ticker without a book it changes nothing at all, and
\* for a ticker with a book it changes that ticker's book only, to the book
\* with the updates applied.
C21_UpdateNeedsBook ==
    pc = "idle" =>
        \A msg \in UpdateMessages :
            LET h == Route(Self, msg) IN
                /\ h = [Self EXCEPT !.order_books = h.order_books]
                /\ DOMAIN h.order_books = DOMAIN order_books
                /\ \A t \in DOMAIN order_books :
                       h.order_books[t] =
                           IF t = msg.ticker
                           THEN ApplyUpdates(order_books[t], msg.updates)
                           ELSE order_books[t]

\* An update has changed the book of ticker 1 during the start-up and
\* ticker 2 has no book.
C21_Witness ==
    /\ Has(order_books, 1)
    /\ order_books[1] \notin Contents
    /\ ~Has(order_books, 2)
    /\ current_exec_state = "STARTING"
    /\ Has(starting_barriers, ORDERBOOK_SNAPSHOTS)

\* --------------------------- order of arrival ----------------------------

\* The acknowledgements of the start-up: security report, position reports,
\* an order-book snapshot of a ticker, a mass-status result of a ticker.
Acknowledgements ==
    {m \in LifeCycleMessages :
        \/ m.type \in {"SecurityReport", "PositionReports", "OrderBookSnapshot"}
        \/ m.type = "ExecReport" /\ m.exec_type = "I"
             /\ (m.ord_status = "8" \/ m.is_mass_status)}

\* C22: two acknowledgements dispatched in STARTING leave the same starting
\* barriers and the same execution state in either order of arrival.
C22_AcknowledgementsCommute ==
    (pc = "pop" /\ current_exec_state = "STARTING") =>
        \A a \in Acknowledgements : \A b \in Acknowledgements :
            LET ab == DispatchTwo(Self, a, b)
                ba == DispatchTwo(Self, b, a)
            IN  /\ ab.starting_barriers = ba.starting_barriers
                /\ ab.current_exec_state = ba.current_exec_state

\* The requirement that message m acknowledges is outstanding in s.
Outstanding(s, m) ==
    CASE m.type = "SecurityReport" -> Has(s.starting_barriers, SECURITY_REPORTS)
      [] m.type = "PositionReports" -> Has(s.starting_barriers, POSITION_SNAPSHOTS)
      [] m.type = "OrderBookSnapshot" ->
            /\ Has(s.starting_barriers, ORDERBOOK_SNAPSHOTS)
            /\ m.ticker \in s.starting_barriers[ORDERBOOK_SNAPSHOTS]
      [] OTHER ->
            /\ Has(s.starting_barriers, WORKING_ORDERS)
            /\ m.ticker \in s.starting_barriers[WORKING_ORDERS]

\* Two acknowledgements of different outstanding requirements commute.
C22_OutstandingCommute ==
    (pc = "pop" /\ current_exec_state = "STARTING") =>
        \A a \in Acknowledgements : \A b \in Acknowledgements :
            (/\ Outstanding(Self, a)
             /\ Outstanding(Self, b)
             /\ Outstanding(Route(Self, a), b)
             /\ Outstanding(Route(Self, b), a)) =>
                LET ab == DispatchTwo(Self, a, b)
                    ba == DispatchTwo(Self, b, a)
                IN  /\ ab.starting_barriers = ba.starting_barriers
                    /\ ab.current_exec_state = ba.current_exec_state
                    /\ ab.raise = "none"

\* ------------------------------- chaining --------------------------------

\* C23: one top-level evaluation in LOGING_IN with the logon seen ends in
\* STARTING with starting() run once, and one top-level evaluation in
\* STARTING with no starting barrier left runs trade() once and ends in
\* STARTED, or in STOPPING when the time-out has elapsed.
C23_SameTickChaining ==
    pc \in {"idle", "eval"} =>
        LET r == exec_state_evaluation(Self) IN
            /\ (current_exec_state = "LOGING_IN" /\ logged_in) =>
                   /\ r.raise = "none"
                   /\ r.current_exec_state = "STARTING"
                   /\ CountCalls(r.calls, "starting") = 1
            /\ (current_exec_state = "STARTING" /\ Len0(starting_barriers) = 0) =>
                   /\ r.raise = "none"
                   /\ r.current_exec_state =
                          IF now >= start_time + timeout THEN "STOPPING" ELSE "STARTED"
                   /\ CountCalls(r.calls, "trade") = 1

\* The evaluation that ended an iteration of dispatch() ran starting() once
\* and did not trade: it found LOGING_IN and went on to STARTING.
C23_Witness ==
    /\ pc = "pop"
    /\ current_exec_state = "STARTING"
    /\ CountCalls(last.calls, "starting") = 1
    /\ CountCalls(last.calls, "trade") = 0
    /\ starting_barriers = get_starting_barriers

\* ---------------------------- loop iterations ----------------------------

\* C24: an iteration of the loop of dispatch() that has popped a message or
\* timed out on the queue goes on to its evaluation, and the loop is left
\* only by the loop test finding completed true.
C24_EveryIterationEvaluates ==
    [][/\ (pc = "pop" /\ pc' # "pop") => pc' = "eval"
       /\ (pc \in {"pop", "eval"} /\ pc' \notin {"pop", "eval"}) =>
              (pc = "eval" /\ pc' = "idle" /\ completed')]_vars

\* ------------------------- mass-status batches ---------------------------

\* The batches of n status-response reports that each declare total n and
\* whose last report carries the last-report flag.
Batches(n) ==
    {b \in [1..n -> {m \in AllExecReports :
                        IsMassStatusReport(m) /\ m.tot_num_reports = n /\ m.ord_id = 1}] :
        b[n].last_rpt_requested}

BatchTickers(b) == {b[i].ticker : i \in 1..Len(b)}

\* The batch b, handled from s, is aggregated once, on its last report, with
\* exactly its reports, and leaves the accumulator empty.
AggregatedOnce(s, b) ==
    LET before == HandleAll(s, SubSeq(b, 1, Len(b) - 1))
        after == HandleAll(s, b)
    IN  /\ CountCalls(before.calls, "on_mass_status_exec_report") = 0
        /\ CountCalls(after.calls, "on_mass_status_exec_report") = 1
        /\ CalledTickers(after.calls, "on_mass_status_exec_report") = BatchTickers(b)
        /\ after.mass_status_exec_reports = << >>

\* C25: the accumulator is empty when no batch is in flight, and a batch
\* that arrives then is aggregated once, on its last report, with exactly
\* its reports, and leaves the accumulator empty.
C25_BatchAggregatedOnce ==
    pc \in {"idle", "pop"} =>
        /\ mass_status_exec_reports = << >>
        /\ \A n \in 1..MaxReports : \A b \in Batches(n) : AggregatedOnce(Self, b)

\* The same while the WORKING_ORDERS requirement is outstanding.
C25_BatchWhileOutstanding ==
    (pc \in {"idle", "pop"} /\ Has(starting_barriers, WORKING_ORDERS)) =>
        /\ mass_status_exec_reports = << >>
        /\ \A n \in 1..MaxReports : \A b \in Batches(n) : AggregatedOnce(Self, b)

\* --------------------------- execution reports ---------------------------

\* The branch of on_exec_report that handled a report, by what it did.
InStatusBranch(s, h) ==
    \/ Called(h.calls, "on_mass_status_exec_report")
    \/ Called(h.calls, "on_status_exec_report")
    \/ h.mass_status_exec_reports # s.mass_status_exec_reports

InRejectBranch(h) == Called(h.calls, "on_reject_exec_report")

InTrackerBranch(h) == Called(h.calls, "order_tracker.process")

BranchesTaken(s, h) ==
    Cardinality({b \in {"status", "reject", "tracker"} :
        \/ b = "status" /\ InStatusBranch(s, h)
        \/ b = "reject" /\ InRejectBranch(h)
        \/ b = "tracker" /\ InTrackerBranch(h)})

\* C26: every execution report is handled by exactly one of the status
\* branch, the reject branch and the tracker branch, and a report with the
\* reject execution type or the rejected order status that is no status
\* response is not passed to the order tracker and changes neither the
\* starting nor the stopping barriers.
C26_ReportBranchesPartition ==
    pc = "idle" =>
        \A msg \in AllExecReports :
            LET h == Route(Self, msg) IN
                /\ BranchesTaken(Self, h) = 1
                /\ (msg.exec_type # "I" /\ (msg.exec_type = "8" \/ msg.ord_status = "8")) =>
                       /\ InRejectBranch(h)
                       /\ h.raise = "none"
                       /\ h.open_orders = open_orders
                       /\ h.starting_barriers = starting_barriers
                       /\ h.stopping_barriers = stopping_barriers

\* A reject report was handled during the wind-down while an order is open
\* and CANCEL_OPEN_ORDERS is outstanding.
C26_Witness ==
    /\ Called(last.calls, "on_reject_exec_report")
    /\ current_exec_state = "STOPPING"
    /\ Has(stopping_barriers, CANCEL_OPEN_ORDERS)
    /\ open_orders # {}

\* C27: for a report of the normal kind the tracker processes the report
\* first; then CANCEL_OPEN_ORDERS, if present, is removed exactly when the
\* tracker has no open order after that, and otherwise both barrier mappings
\* stay as they are.
C27_TrackerThenCancelKey ==
    pc = "idle" =>
        \A msg \in AllExecReports :
            (msg.exec_type # "I" /\ msg.exec_type # "8" /\ msg.ord_status # "8") =>
                LET h == Route(Self, msg) IN
                    /\ h.raise = "none"
                    /\ h.calls = <<[fn |-> "order_tracker.process", tickers |-> {}, ready |-> TRUE]>>
                    /\ h.open_orders = TrackerProcess(open_orders, msg)
                    /\ h.starting_barriers = starting_barriers
                    /\ h.stopping_barriers =
                           IF Has(stopping_barriers, CANCEL_OPEN_ORDERS) /\ h.open_orders = {}
                           THEN DictPop(stopping_barriers, CANCEL_OPEN_ORDERS)
                           ELSE stopping_barriers

\* The report that closed the last open order during the wind-down was
\* processed and CANCEL_OPEN_ORDERS is gone.
C27_Witness ==
    /\ Called(last.calls, "order_tracker.process")
    /\ current_exec_state = "STOPPING"
    /\ cancel_orders_on_exit
    /\ logged_in
    /\ open_orders = {}
    /\ ~Has(stopping_barriers, CANCEL_OPEN_ORDERS)

\* A report was processed during the wind-down, an order is still open and
\* CANCEL_OPEN_ORDERS is still outstanding.
C27_WitnessOpen ==
    /\ Called(last.calls, "order_tracker.process")
    /\ current_exec_state = "STOPPING"
    /\ open_orders # {}
    /\ Has(stopping_barriers, CANCEL_OPEN_ORDERS)

\* --------------------------- position reports ----------------------------

\* C28: a position-report batch handled while POSITION_SNAPSHOTS is
\* outstanding calls the position tracker's snapshot-setter once and removes
\* that key only; a batch handled while the key is absent, as every batch
\* after the first of a starting phase is, calls nothing and changes nothing.
C28_FirstPositionBatchOnly ==
    /\ (current_exec_state = "STARTING" /\ dispatched.position) =>
           ~Has(starting_barriers, POSITION_SNAPSHOTS)
    /\ pc \in {"idle", "pop"} =>
           LET h == Route(Self, [type |-> "PositionReports"])
               h2 == Route(h, [type |-> "PositionReports"])
           IN  /\ h.raise = "none"
               /\ h.stopping_barriers = stopping_barriers
               /\ IF Has(starting_barriers, POSITION_SNAPSHOTS)
                  THEN /\ CountCalls(h.calls, "position_tracker.set_snapshots") = 1
                       /\ h.starting_barriers = DictPop(starting_barriers, POSITION_SNAPSHOTS)
                  ELSE h = Self
               /\ h2 = h

\* The first position-report batch of the starting phase has been handled,
\* the other requirements are outstanding.
C28_Witness ==
    /\ current_exec_state = "STARTING"
    /\ dispatched.position
    /\ ~Has(starting_barriers, POSITION_SNAPSHOTS)
    /\ Has(starting_barriers, SECURITY_REPORTS)
    /\ last.raised = "none"

\* ------------------------- the cancel requirement ------------------------

\* C29: after stopping() the stopping barriers hold CANCEL_OPEN_ORDERS with
\* the configured trading tickers if cancel_orders_on_exit is set and the
\* session is logged in, and are empty otherwise; with empty stopping
\* barriers the next evaluation calls the transport stop.
C29_CancelRequirementInstalled ==
    pc \in {"idle", "eval"} =>
        LET r == exec_state_evaluation(Self) IN
            Called(r.calls, "stopping") =>
                /\ r.raise = "none"
                /\ r.current_exec_state = "STOPPING"
                /\ IF cancel_orders_on_exit /\ r.logged_in
                   THEN r.stopping_barriers =
                            [k \in {CANCEL_OPEN_ORDERS} |-> trading_symbols]
                   ELSE /\ r.stopping_barriers = EmptyDict
                        /\ LET r2 == exec_state_evaluation([r EXCEPT !.calls = << >>])
                           IN  CountCalls(r2.calls, "app_runner.stop") = 1

\* stopping() has run with cancel_orders_on_exit set after the session was
\* logged out, and has installed nothing.
C29_Witness ==
    /\ Called(last.calls, "stopping")
    /\ current_exec_state = "STOPPING"
    /\ cancel_orders_on_exit
    /\ ~logged_in
    /\ stopping_barriers = EmptyDict

\* stopping() has run with cancel_orders_on_exit set and the session logged
\* in, and has installed the requirement.
C29_WitnessInstalled ==
    /\ Called(last.calls, "stopping")
    /\ current_exec_state = "STOPPING"
    /\ cancel_orders_on_exit
    /\ logged_in
    /\ Has(stopping_barriers, CANCEL_OPEN_ORDERS)
    /\ stopping_barriers[CANCEL_OPEN_ORDERS] = trading_symbols

\* C30: when stopping() has installed CANCEL_OPEN_ORDERS, the stopping
\* reference holds the full requirement set, and it stays as it is while the
\* stopping barriers lose tickers.
C30_StoppingReferenceHeld ==
    Has(stopping_barriers, CANCEL_OPEN_ORDERS) =>
        stopping_reference = [k \in {CANCEL_OPEN_ORDERS} |-> trading_symbols]

\* ---------------------------- snapshot books -----------------------------

\* C31: whatever the starting barriers hold, a snapshot leaves the book of
\* its ticker equal to the book of the snapshot, and no ticker loses its
\* book.
C31_SnapshotRebuildsBook ==
    pc = "idle" =>
        \A msg \in SnapshotMessages :
            LET h == Route(Self, msg) IN
                /\ Has(h.order_books, msg.ticker)
                /\ h.order_books[msg.ticker] = msg.content
                /\ DOMAIN order_books \subseteq DOMAIN h.order_books

\* The same for a snapshot that the handler takes without a fault.
C31_AcceptedSnapshotRebuildsBook ==
    pc = "idle" =>
        \A msg \in SnapshotMessages :
            LET h == Route(Self, msg) IN
                /\ DOMAIN order_books \subseteq DOMAIN h.order_books
                /\ h.raise = "none" =>
                       /\ Has(h.order_books, msg.ticker)
                       /\ h.order_books[msg.ticker] = msg.content

\* ------------------------- transport start and stop ----------------------

\* An evaluation calls the transport start only out of STOPPED, once, and
\* leaves STOPPED with it; it calls the transport stop only out of STOPPING,
\* once, and ends the run in FINISHED with it.
StartAndStopOnce ==
    pc \in {"idle", "eval"} =>
        LET r == exec_state_evaluation(Self) IN
            /\ CountCalls(r.calls, "app_runner.start") <= 1
            /\ CountCalls(r.calls, "app_runner.stop") <= 1
            /\ Called(r.calls, "app_runner.start") =>
                   (current_exec_state = "STOPPED" /\ r.current_exec_state # "STOPPED")
            /\ Called(r.calls, "app_runner.stop") =>
                   (current_exec_state = "STOPPING" /\ r.current_exec_state = "FINISHED")

\* C33: the transport start and the transport stop are each called at most
\* once in a run and the stop comes after the start: the start is called
\* only in leaving STOPPED, the stop only in going from STOPPING to FINISHED,
\* and the state returns neither to STOPPED nor out of FINISHED.
C33_StartAndStopAtMostOnce ==
    /\ []StartAndStopOnce
    /\ [][/\ current_exec_state # "STOPPED" => current_exec_state' # "STOPPED"
          /\ current_exec_state = "FINISHED" => current_exec_state' = "FINISHED"]_vars

\* The run has been started and stopped by dispatch(): the transport stop
\* was called and the state is FINISHED.
C33_Witness ==
    /\ Called(last.calls, "app_runner.stop")
    /\ current_exec_state = "FINISHED"
    /\ timed_out
    /\ completed
    /\ pc = "raised" \/ pc = "idle"

\* -------------------------- interleaved batches --------------------------

\* The batches of n reports that are all for ticker t.
BatchesOf(t, n) == {b \in Batches(n) : BatchTickers(b) = {t}}

RECURSIVE Merges(_, _)

\* The sequences that keep the order of a and the order of b.
Merges(a, b) ==
    IF a = << >> THEN {b}
    ELSE IF b = << >> THEN {a}
    ELSE {<<Head(a)>> \o m : m \in Merges(Tail(a), b)}
         \cup {<<Head(b)>> \o m : m \in Merges(a, Tail(b))}

\* The arrivals in which neither batch is complete before the other begins.
Interleaved(a, b) == Merges(a, b) \ {a \o b, b \o a}

\* C34: with the working orders of tickers 1 and 2 outstanding and the
\* accumulator empty, the interleaved reports of a batch for ticker 1 and a
\* batch for ticker 2 give two aggregated results, remove WORKING_ORDERS and
\* leave the accumulator empty.
C34_InterleavedBatchesAggregated ==
    (/\ pc \in {"idle", "pop"}
     /\ current_exec_state = "STARTING"
     /\ Has(starting_barriers, WORKING_ORDERS)
     /\ starting_barriers[WORKING_ORDERS] = {1, 2}
     /\ mass_status_exec_reports = << >>) =>
        \A n \in 1..MaxReports : \A a \in BatchesOf(1, n) : \A b \in BatchesOf(2, n) :
            \A arrival \in Interleaved(a, b) :
                LET r == HandleAll(Self, arrival) IN
                    /\ CountCalls(r.calls, "on_mass_status_exec_report") = 2
                    /\ ~Has(r.starting_barriers, WORKING_ORDERS)
                    /\ r.mass_status_exec_reports = << >>

\* The same for two batches that arrive one after the other.
C34_SuccessiveBatchesAggregated ==
    (/\ pc \in {"idle", "pop"}
     /\ current_exec_state = "STARTING"
     /\ Has(starting_barriers, WORKING_ORDERS)
     /\ starting_barriers[WORKING_ORDERS] = {1, 2}
     /\ mass_status_exec_reports = << >>) =>
        \A n \in 1..MaxReports : \A a \in BatchesOf(1, n) : \A b \in BatchesOf(2, n) :
            \A arrival \in {a \o b, b \o a} :
                LET r == HandleAll(Self, arrival) IN
                    /\ CountCalls(r.calls, "on_mass_status_exec_report") = 2
                    /\ ~Has(r.starting_barriers, WORKING_ORDERS)
                    /\ r.mass_status_exec_reports = << >>

\* --------------------------- cancel requests -----------------------------

\* The calls made in the step r ask for the cancellation of the orders of
\* ticker t: a mass-cancel request for t, or cancel requests for the open
\* orders.
CancelRequested(r, t) ==
    \/ t \in CalledTickers(r.calls, "order_mass_cancel_request")
    \/ Called(r.calls, "order_cancel_request")

\* C35: an evaluation in which stopping() installs CANCEL_OPEN_ORDERS has
\* sent a cancel or mass-cancel request for every ticker of the requirement.
C35_RequirementHasRequest ==
    pc = "idle" =>
        LET r == exec_state_evaluation(Self) IN
            (Called(r.calls, "stopping") /\ Has(r.stopping_barriers, CANCEL_OPEN_ORDERS)) =>
                \A t \in r.stopping_barriers[CANCEL_OPEN_ORDERS] : CancelRequested(r, t)

\* ----------------------------- RandomStrategy ----------------------------

\* In the submit method in progress every symbol has at most one order, one
\* consume for each order and one granted has_capacity check for each order,
\* and the method was abandoned only after more than trade_interval had
\* passed since its start.
RetryBounded ==
    /\ \A t \in Tickers :
           /\ random.sent[t] <= 1
           /\ random.sent[t] = random.consumed[t]
           /\ random.sent[t] = random.granted[t]
    /\ random.abandoned => random.clock - random.submit_start_time > trade_interval

InSubmit == random.rpc \in {"symbol", "retry"}

\* C32: the rate-limit retry ends: a submit method in progress is left; for
\* each symbol the order is sent once, after one granted capacity check and
\* one consume, or the method is abandoned once more than trade_interval has
\* passed.
C32_RetryTerminates ==
    /\ []RetryBounded
    /\ InSubmit ~> ~InSubmit

\* The first symbol got its order and the method was abandoned in the retry
\* for the second.
C32_Witness ==
    /\ random.rpc = "check"
    /\ random.abandoned
    /\ random.sent[1] = 1
    /\ random.sent[2] = 0

\* C36: trade() is called only in an iteration that found to_stop false and
\* is_ready_to_trade() true; once to_stop is set it stays set and trade() is
\* not called again; strategy_loop is left only with the API finished or an
\* exception caught.
C36_TradeOnlyWhenReady ==
    /\ [](random.rpc = "trade" => (~random.to_stop /\ random.ready))
    /\ [][/\ random'.trades # random.trades => (~random.to_stop /\ random.ready)
          /\ random.to_stop => (random'.to_stop /\ random'.trades = random.trades)
          /\ (random.rpc # "exit" /\ random'.rpc = "exit") =>
                 (random'.api_finished \/ random'.caught)]_vars

\* The loop has traded, has seen the time-out and has ended with the API
\* finished.
C36_Witness ==
    /\ random.rpc = "exit"
    /\ random.trades > 0
    /\ random.to_stop
    /\ random.api_finished
    /\ ~random.caught
    /\ random.clock >= random_start_time + random_timeout

=============================================================================
